---- MODULE Spec2Model ----
(***************************************************************************)
(* ThreadRunner (kedro/runner/thread_runner.py): the scheduling loop that  *)
(* runs the nodes of a pipeline on a thread pool, the reference-counted    *)
(* release of data sets, and the worker sizing.                            *)
(*                                                                         *)
(* A pipeline has nodes 1..n.  A data set name is a pair <<base, tc>>:     *)
(* base 0 is a name no node produces, base k > 0 is the name node k may    *)
(* produce, and tc is the transcoding suffix ("" for none, so <<2,"save">> *)
(* stands for "ds2@save").  Node k reads only names of a smaller base, so  *)
(* every pipeline drawn is acyclic, as Pipeline's constructor enforces.    *)
(***************************************************************************)
EXTENDS Integers, Sequences, FiniteSets, TLC

\* Bounds of the model.
NumNodes == 3
MaxInputs == 2
MaxUserWorkers == 2
MaxCpuCores == 4
MaxPoolWorkers == 6

Nodes == 1..NumNodes
Suffixes == {"", "save", "load"}
Names == (0..NumNodes) \X Suffixes

\* The key the test's mocked dependency map uses: a name that never completes.
you_shall_not_pass == 0

Range(s) == {s[i] : i \in DOMAIN s}

Max(S) == CHOOSE x \in S : \A y \in S : y <= x

Min2(a, b) == IF a <= b THEN a ELSE b

\* The input lists of a node: the sequences over S of length at most k, up to
\* the order of their entries (kept sorted by base).  A name a node of the
\* pipeline produces may be declared more than once, the unproduced name once.
MayFollow(s, y) ==
    \/ Len(s) = 0
    \/ s[Len(s)][1] < y[1]
    \/ s[Len(s)] = y /\ y[1] # 0

RECURSIVE InputListsOver(_, _)
InputListsOver(S, k) ==
    IF k = 0 THEN {<<>>}
    ELSE LET shorter == InputListsOver(S, k - 1)
         IN  shorter \cup
             UNION {{Append(s, y) : y \in {z \in S : MayFollow(s, z)}}
                    : s \in {t \in shorter : Len(t) = k - 1}}

\* All orders in which the elements of the set S can be iterated.
RECURSIVE Orders(_)
Orders(S) ==
    IF S = {} THEN {<<>>}
    ELSE UNION {{<<x>> \o s : s \in Orders(S \ {x})} : x \in S}

(***************************************************************************)
(* The pipelines the runner is given.                                      *)
(***************************************************************************)
OutKinds == {"none", "plain", "save"}

OutputsOf(k, kind) ==
    CASE kind = "none"  -> {}
      [] kind = "plain" -> {<<k, "">>}
      [] kind = "save"  -> {<<k, "save">>}

\* The names node k may declare as inputs: the unproduced name, and the name
\* of each earlier node that produces one, read as "@load" when it is written
\* as "@save".
Available(k, kinds) ==
    {<<0, "">>} \cup
    UNION {CASE kinds[b] = "none"  -> {}
             [] kinds[b] = "plain" -> {<<b, "">>}
             [] kinds[b] = "save"  -> {<<b, "load">>}
           : b \in 1..(k - 1)}

RECURSIVE InputLists(_, _)
InputLists(k, kinds) ==
    IF k = 0 THEN {<<>>}
    ELSE {Append(f, s) : f \in InputLists(k - 1, kinds),
                         s \in InputListsOver(Available(k, kinds), MaxInputs)}

\* A name written as "@save" has a reader of its "@load" side.
TranscodedIsRead(ins, kinds) ==
    \A k \in DOMAIN kinds :
        kinds[k] = "save" => \E j \in DOMAIN ins : <<k, "load">> \in Range(ins[j])

Pipelines ==
    UNION {UNION {{[n |-> size,
                    inputs |-> ins,
                    outputs |-> [k \in 1..size |-> OutputsOf(k, kinds[k])]]
                   : ins \in {i \in InputLists(size, kinds) : TranscodedIsRead(i, kinds)}}
                  : kinds \in [1..size -> OutKinds]}
           : size \in 0..NumNodes}

strip_transcoding(d) == d[1]

PNodes(p) == 1..p.n

all_inputs(p) == UNION {Range(p.inputs[k]) : k \in PNodes(p)}

all_outputs(p) == UNION {p.outputs[k] : k \in PNodes(p)}

remove_intermediates(p, datasets) ==
    LET intermediate == {strip_transcoding(i) : i \in all_inputs(p)} \cap
                        {strip_transcoding(o) : o \in all_outputs(p)}
    IN  {d \in datasets : strip_transcoding(d) \notin intermediate}

\* pipeline.inputs(): the free inputs.
pipeline_inputs(p) == remove_intermediates(p, all_inputs(p))

\* pipeline.outputs(): the run outputs.
pipeline_outputs(p) == remove_intermediates(p, all_outputs(p))

\* pipeline.node_dependencies: the producers of each node's inputs.
real_node_dependencies(p) ==
    [k \in PNodes(p) |->
        {parent \in PNodes(p) :
            \E o \in p.outputs[parent], i \in Range(p.inputs[k]) :
                strip_transcoding(o) = strip_transcoding(i)}]

\* The dependency map of test_unable_to_schedule_all_nodes.
fake_node_dependencies(p) == [k \in PNodes(p) |-> {you_shall_not_pass}]

\* pipeline.grouped_nodes: the topological layers; a node's layer is one more
\* than the deepest layer among its parents.
RECURSIVE LayerOf(_, _)
LayerOf(p, k) ==
    LET parents == real_node_dependencies(p)[k]
    IN  IF parents = {} THEN 1 ELSE 1 + Max({LayerOf(p, d) : d \in parents})

grouped_nodes_len(p) == IF p.n = 0 THEN 0 ELSE Max({LayerOf(p, k) : k \in PNodes(p)})

\* How many times the list s declares the name d.
Occurrences(s, d) == Cardinality({i \in DOMAIN s : s[i] = d})

RECURSIVE DeclaredBy(_, _, _)
DeclaredBy(p, k, d) ==
    IF k = 0 THEN 0 ELSE Occurrences(p.inputs[k], d) + DeclaredBy(p, k - 1, d)

\* Counter(chain.from_iterable(n.inputs for n in nodes)); a Counter reads 0
\* for a key it does not hold.
InitialLoadCounts(p) == [d \in Names |-> DeclaredBy(p, p.n, d)]

\* The paths delete_pipeline looks at, in the order it deletes them, and a
\* path of the project it does not look at.
ConfFiles == <<"parameters.yml", "catalog.yml">>
PipelineDirs == <<"pipeline_dir", "pipeline_tests">>
ProjectPaths == Range(ConfFiles) \cup Range(PipelineDirs) \cup {"pipeline_registry.py"}

\* The paths _sync_dirs may meet, relative to the directory it is given: the
\* entries of that directory, and one entry in each of them.
EntryNames == {"d", "f"}
InnerNames == {"f"}
SyncPaths == {<<a>> : a \in EntryNames} \cup (EntryNames \X InnerNames)

(***************************************************************************)
(* State.                                                                  *)
(***************************************************************************)
VARIABLES
    pipeline,           \* the Pipeline given to run
    node_dependencies,  \* pipeline.node_dependencies as _run reads it
    self_max_workers,   \* self._max_workers: {} is None, {k} is k
    max_workers,        \* the pool's bound
    pc,                 \* where the control thread is
    outcome,            \* how the call ended, once it has
    todo_nodes, done_nodes, futures, done, load_counts,
    node,               \* the node whose future the for loop is handling
    taskState,          \* each node's future, as the pool sees it
    workQueue,          \* the pool's FIFO of submitted work items
    released,           \* calls of catalog.release per name so far
    loads,              \* calls of catalog.load per name so far
    loadedAfterRelease, \* names loaded at a moment they were already released
    dispatchCount,      \* pool.submit calls per node
    finishCount,        \* times each node was recorded in done_nodes
    suggested,          \* arguments of _suggest_resume_scenario calls so far
    max_workers_arg,    \* the max_workers argument of __init__: {} is None
    stateAtFailure,     \* taskState as it was when the loop met a failed future
    runner,             \* the class of the runner: "ThreadRunner" or "ParallelRunner"
    cpu_cores,          \* what os.cpu_count() gives
    start_method,       \* what multiprocessing.get_start_method() gives
    package_name,       \* _run_node_synchronization's package_name: {} is None
    conf_logging,       \* its conf_logging: {} is None, {<<>>} is the empty dict
    is_async,           \* its is_async
    calls,              \* the calls it has made, oldest first
    unserializable_nodes,       \* the nodes whose function cannot be pickled
    unserializable_data_sets,   \* the catalog's data sets that cannot be shared
    env_exists,         \* delete_pipeline: (project_conf_path / env).exists()
    paths,              \* what each path of the project is: "none", "file", "dir"
    yes,                \* the --yes flag
    answer,             \* what click.confirm gave: "unasked", "yes" or "no"
    artifacts,          \* _delete_artifacts' arguments still to be deleted
    deleted,            \* the paths removed so far
    unremovable,        \* the paths whose removal raises
    source,             \* _sync_dirs: what each path is under the source directory
    target,             \* and under the target directory when _sync_dirs is called
    overwrite,          \* the overwrite argument of the call
    frames,             \* the calls of _sync_dirs under way, the innermost first
    copied,             \* the paths shutil.copyfile has written in the target
    made                \* the directories target.mkdir has created in the target

vars == <<pipeline, node_dependencies, self_max_workers, max_workers, pc, outcome,
          todo_nodes, done_nodes, futures, done, load_counts, node, taskState,
          workQueue, released, loads, loadedAfterRelease, dispatchCount,
          finishCount, suggested, max_workers_arg, stateAtFailure, runner,
          cpu_cores, start_method, package_name, conf_logging, is_async, calls,
          unserializable_nodes, unserializable_data_sets, env_exists, paths, yes,
          answer, artifacts, deleted, unremovable, source, target, overwrite,
          frames, copied, made>>

\* What the caller and the host give; nothing below writes them.
entryArgs == <<start_method, package_name, conf_logging, is_async>>

unserializable == <<unserializable_nodes, unserializable_data_sets>>

deleteVars == <<env_exists, paths, yes, answer, artifacts, deleted, unremovable>>

syncVars == <<source, target, overwrite, frames, copied, made>>

cliVars == <<deleteVars, syncVars>>

envVars == <<max_workers_arg, runner, cpu_cores, entryArgs, calls, unserializable,
             cliVars>>

pipeVars == <<pipeline, node_dependencies, envVars>>
loopVars == <<todo_nodes, done_nodes, futures, done, load_counts, node>>
poolVars == <<taskState, workQueue>>
catalogVars == <<released, loads, loadedAfterRelease>>
histVars == <<dispatchCount, finishCount, suggested, stateAtFailure>>

NoOutcome == [kind |-> "none"]

MaxWorkersArgs == {{}} \cup {{w} : w \in (-1)..MaxUserWorkers}

\* No run has begun.
NoRun ==
    /\ max_workers = 0
    /\ outcome = NoOutcome
    /\ todo_nodes = {}
    /\ done_nodes = {}
    /\ futures = {}
    /\ done = {}
    /\ load_counts = [d \in Names |-> 0]
    /\ node = 0
    /\ taskState = [k \in Nodes |-> "none"]
    /\ workQueue = <<>>
    /\ released = [d \in Names |-> 0]
    /\ loads = [d \in Names |-> 0]
    /\ loadedAfterRelease = {}
    /\ dispatchCount = [k \in Nodes |-> 0]
    /\ finishCount = [k \in Nodes |-> 0]
    /\ suggested = <<>>
    /\ stateAtFailure = [k \in Nodes |-> "none"]

\* Nothing has run yet, and no runner has been constructed.
NotStarted ==
    /\ self_max_workers = {}
    /\ pc = "construct"
    /\ NoRun

\* Threads share the memory: nothing has to be pickled.
NothingToPickle ==
    /\ unserializable_nodes = {}
    /\ unserializable_data_sets = {}

\* No command of the command line is part of what is modelled.
NoDelete ==
    /\ env_exists = TRUE
    /\ paths = [p \in ProjectPaths |-> "none"]
    /\ yes = FALSE
    /\ answer = "unasked"
    /\ artifacts = <<>>
    /\ deleted = {}
    /\ unremovable = {}

NoSync ==
    /\ source = [p \in SyncPaths |-> "none"]
    /\ target = [p \in SyncPaths |-> "none"]
    /\ overwrite = FALSE
    /\ frames = <<>>
    /\ copied = {}
    /\ made = {}

NoCli == NoDelete /\ NoSync

\* No subprocess is part of what is modelled.
NoSubprocess ==
    /\ start_method = "fork"
    /\ package_name = {}
    /\ conf_logging = {}
    /\ is_async = FALSE
    /\ calls = <<>>

\* A ThreadRunner is about to be constructed and run on a pipeline.
\* ThreadRunner never asks for the number of cores.
Init ==
    /\ pipeline \in Pipelines
    /\ max_workers_arg \in MaxWorkersArgs
    /\ node_dependencies \in {real_node_dependencies(pipeline),
                              fake_node_dependencies(pipeline)}
    /\ runner = "ThreadRunner"
    /\ cpu_cores = MaxCpuCores
    /\ NoSubprocess
    /\ NothingToPickle
    /\ NoCli
    /\ NotStarted

(***************************************************************************)
(* The control thread.                                                     *)
(***************************************************************************)
NonPositiveArg(arg) == \E w \in arg : w <= 0

\* __init__ rejecting only a negative max_workers.
ConstructAcceptingZero(arg) ==
    /\ pc = "construct"
    /\ arg = max_workers_arg
    /\ IF arg # {} /\ (\E w \in arg : w < 0)
       THEN /\ pc' = "finished"
            /\ outcome' = [kind |-> "ValueError"]
            /\ UNCHANGED self_max_workers
       ELSE /\ pc' = "run"
            /\ self_max_workers' = arg
            /\ UNCHANGED outcome
    /\ UNCHANGED <<pipeVars, max_workers, loopVars, poolVars, catalogVars, histVars>>

\* ThreadRunner.__init__.
Construct(arg) ==
    /\ pc = "construct"
    /\ arg = max_workers_arg
    /\ IF arg # {} /\ (\E w \in arg : w <= 0)
       THEN /\ pc' = "finished"
            /\ outcome' = [kind |-> "ValueError"]
            /\ UNCHANGED self_max_workers
       ELSE /\ pc' = "run"
            /\ self_max_workers' = arg
            /\ UNCHANGED outcome
    /\ UNCHANGED <<pipeVars, max_workers, loopVars, poolVars, catalogVars, histVars>>

\* _get_required_workers_count without the '+ 1'.
get_required_workers_count_less_one(p, user_max) ==
    LET required_threads == p.n - grouped_nodes_len(p)
    IN  IF user_max # {} /\ (\E w \in user_max : w # 0)
        THEN Min2(required_threads, CHOOSE w \in user_max : TRUE)
        ELSE required_threads

\* _get_required_workers_count taking the number of layers as what is required.
get_required_workers_count_of_layers(p, user_max) ==
    LET required_threads == grouped_nodes_len(p)
    IN  IF user_max # {} /\ (\E w \in user_max : w # 0)
        THEN Min2(required_threads, CHOOSE w \in user_max : TRUE)
        ELSE required_threads

\* _get_required_workers_count taking the size of the largest layer.
get_required_workers_count_of_widest_layer(p, user_max) ==
    LET required_threads ==
            IF p.n = 0 THEN 0
            ELSE Max({Cardinality({k \in PNodes(p) : LayerOf(p, k) = l}) :
                      l \in 1..grouped_nodes_len(p)})
    IN  IF user_max # {} /\ (\E w \in user_max : w # 0)
        THEN Min2(required_threads, CHOOSE w \in user_max : TRUE)
        ELSE required_threads

\* ThreadRunner._get_required_workers_count.
get_required_workers_count(p, user_max) ==
    LET required_threads == p.n - grouped_nodes_len(p) + 1
    IN  IF user_max # {} /\ (\E w \in user_max : w # 0)
        THEN Min2(required_threads, CHOOSE w \in user_max : TRUE)
        ELSE required_threads

\* _run, up to the creation of the pool.
RunStart ==
    /\ pc = "run"
    /\ load_counts' = InitialLoadCounts(pipeline)
    /\ todo_nodes' = DOMAIN node_dependencies
    /\ done_nodes' = {}
    /\ futures' = {}
    /\ done' = {}
    /\ max_workers' = get_required_workers_count(pipeline, self_max_workers)
    /\ pc' = "schedule"
    /\ UNCHANGED <<pipeVars, self_max_workers, outcome, node, poolVars, catalogVars,
                   histVars>>

\* ReadyNodes taking a node as ready once any one of its dependencies is done.
ReadyNodesAnyDependency(todo, deps, finished) ==
    {k \in todo : deps[k] = {} \/ deps[k] \cap finished # {}}

\* ReadyNodes asking for a proper subset of the done nodes.
ReadyNodesProperSubset(todo, deps, finished) ==
    {k \in todo : deps[k] \subseteq finished /\ deps[k] # finished}

\* ReadyNodes reading the futures' states instead of done_nodes.
ReadyNodesByFuture(todo, deps, finished) ==
    {k \in todo : \A d \in deps[k] : d \in Nodes /\ taskState[d] = "ok"}

\* ReadyNodes taking only the nodes that depend on nothing.
ReadyNodesWithoutDependencies(todo, deps, finished) ==
    {k \in todo : deps[k] = {}}

\* The nodes of todo whose dependencies are all done.
ReadyNodes(todo, deps, finished) == {k \in todo : deps[k] \subseteq finished}

\* LeaveLoop without the assertion.
LeaveLoopUnchecked(todo, finished) == [kind |-> "returned"]

\* 'if not futures: assert not todo_nodes, (todo_nodes, done_nodes, ...); break'
LeaveLoop(todo, finished) ==
    IF todo = {}
    THEN [kind |-> "returned"]
    ELSE [kind |-> "AssertionError", todo |-> todo, finished |-> finished]

\* The top of the loop: submit what is ready, then leave the loop if nothing
\* is in flight.
Schedule ==
    /\ pc = "schedule"
    /\ LET ready == ReadyNodes(todo_nodes, node_dependencies, done_nodes)
       IN  /\ todo_nodes' = todo_nodes \ ready
           /\ futures' = futures \cup ready
           /\ \E order \in Orders(ready) : workQueue' = workQueue \o order
           /\ taskState' = [k \in Nodes |-> IF k \in ready THEN "queued" ELSE taskState[k]]
           /\ dispatchCount' = [k \in Nodes |->
                                  IF k \in ready THEN dispatchCount[k] + 1
                                  ELSE dispatchCount[k]]
    /\ IF futures' = {}
       THEN /\ pc' = "shutdown"
            /\ outcome' = LeaveLoop(todo_nodes', done_nodes)
       ELSE /\ pc' = "wait"
            /\ UNCHANGED outcome
    /\ UNCHANGED <<pipeVars, self_max_workers, max_workers, done_nodes, done,
                   load_counts, node, catalogVars, finishCount, suggested,
                   stateAtFailure>>

IsFinished(k) == taskState[k] \in {"ok", "failed"}

\* wait(futures, return_when=FIRST_COMPLETED): blocks until a future is
\* finished, and returns the finished ones and the rest.
\* Wait as 'done, _ = wait(...)': the finished futures stay among the futures.
WaitKeepingFutures ==
    /\ pc = "wait"
    /\ LET completed == {k \in futures : IsFinished(k)}
       IN  /\ completed # {}
           /\ done' = completed
           /\ futures' = futures
    /\ pc' = "result"
    /\ UNCHANGED <<pipeVars, self_max_workers, max_workers, outcome, todo_nodes,
                   done_nodes, load_counts, node, poolVars, catalogVars, histVars>>

\* Wait as wait(futures, return_when=ALL_COMPLETED).
WaitAllCompleted ==
    /\ pc = "wait"
    /\ \A k \in futures : IsFinished(k)
    /\ done' = futures
    /\ futures' = {}
    /\ pc' = "result"
    /\ UNCHANGED <<pipeVars, self_max_workers, max_workers, outcome, todo_nodes,
                   done_nodes, load_counts, node, poolVars, catalogVars, histVars>>

\* 'done, futures = wait(futures, return_when=FIRST_COMPLETED)': blocks until
\* a future has finished and gives the finished ones.
Wait ==
    /\ pc = "wait"
    /\ LET completed == {k \in futures : IsFinished(k)}
       IN  /\ completed # {}
           /\ done' = completed
           /\ futures' = futures \ completed
    /\ pc' = "result"
    /\ UNCHANGED <<pipeVars, self_max_workers, max_workers, outcome, todo_nodes,
                   done_nodes, load_counts, node, poolVars, catalogVars, histVars>>

\* HandleFailure without the call of _suggest_resume_scenario.
HandleFailureSilently(future) ==
    /\ outcome' = [kind |-> "task_error", of |-> future]
    /\ pc' = "shutdown"
    /\ stateAtFailure' = taskState
    /\ UNCHANGED <<suggested, done_nodes, node, finishCount>>

\* HandleFailure that reports and then goes on with the loop.
HandleFailureAndGoOn(future) ==
    /\ suggested' = Append(suggested, done_nodes)
    /\ stateAtFailure' = taskState
    /\ outcome' = [kind |-> "task_error", of |-> future]
    /\ pc' = IF done' = {} THEN "schedule" ELSE "result"
    /\ UNCHANGED <<done_nodes, node, finishCount>>

\* 'except Exception': report what is done, then raise again, which leaves
\* the loop and the 'with' block.
HandleFailure(future) ==
    /\ suggested' = Append(suggested, done_nodes)
    /\ stateAtFailure' = taskState
    /\ outcome' = [kind |-> "task_error", of |-> future]
    /\ pc' = "shutdown"
    /\ UNCHANGED <<done_nodes, node, finishCount>>

\* One turn of 'for future in done', up to the log lines: future.result()
\* either raises or gives the node, which is added to done_nodes.
GetResult ==
    /\ pc = "result"
    /\ \E future \in done :
          /\ done' = done \ {future}
          /\ IF taskState[future] = "failed"
             THEN HandleFailure(future)
             ELSE /\ node' = future
                  /\ done_nodes' = done_nodes \cup {future}
                  /\ finishCount' = [finishCount EXCEPT ![future] = @ + 1]
                  /\ pc' = "release"
                  /\ UNCHANGED <<suggested, stateAtFailure, outcome>>
    /\ UNCHANGED <<pipeVars, self_max_workers, max_workers, todo_nodes, futures,
                   load_counts, poolVars, catalogVars, dispatchCount>>

\* AfterInputs releasing at every decrement, whatever the count left.
RECURSIVE AfterInputsEveryTime(_, _, _, _, _)
AfterInputsEveryTime(ins, i, counts, rel, free) ==
    IF i = 0 THEN [counts |-> counts, rel |-> rel]
    ELSE LET before == AfterInputsEveryTime(ins, i - 1, counts, rel, free)
             d == ins[i]
             c == [before.counts EXCEPT ![d] = @ - 1]
         IN  [counts |-> c,
              rel |-> IF d \notin free
                      THEN [before.rel EXCEPT ![d] = @ + 1]
                      ELSE before.rel]

\* AfterInputs without the test that the name is not a free input.
RECURSIVE AfterInputsFreeToo(_, _, _, _, _)
AfterInputsFreeToo(ins, i, counts, rel, free) ==
    IF i = 0 THEN [counts |-> counts, rel |-> rel]
    ELSE LET before == AfterInputsFreeToo(ins, i - 1, counts, rel, free)
             d == ins[i]
             c == [before.counts EXCEPT ![d] = @ - 1]
         IN  [counts |-> c,
              rel |-> IF c[d] < 1
                      THEN [before.rel EXCEPT ![d] = @ + 1]
                      ELSE before.rel]

\* AfterInputs releasing one decrement early (count below 2).
RECURSIVE AfterInputsOneEarly(_, _, _, _, _)
AfterInputsOneEarly(ins, i, counts, rel, free) ==
    IF i = 0 THEN [counts |-> counts, rel |-> rel]
    ELSE LET before == AfterInputsOneEarly(ins, i - 1, counts, rel, free)
             d == ins[i]
             c == [before.counts EXCEPT ![d] = @ - 1]
         IN  [counts |-> c,
              rel |-> IF c[d] < 2 /\ before.rel[d] = 0 /\ d \notin free
                      THEN [before.rel EXCEPT ![d] = @ + 1]
                      ELSE before.rel]

\* AfterInputs decrementing once for a name, however often the node declares it.
RECURSIVE AfterInputsOncePerName(_, _, _, _, _)
AfterInputsOncePerName(ins, i, counts, rel, free) ==
    IF i = 0 THEN [counts |-> counts, rel |-> rel]
    ELSE LET before == AfterInputsOncePerName(ins, i - 1, counts, rel, free)
             d == ins[i]
             c == IF \E j \in 1..(i - 1) : ins[j] = d THEN before.counts
                  ELSE [before.counts EXCEPT ![d] = @ - 1]
         IN  [counts |-> c,
              rel |-> IF c[d] < 1 /\ d \notin free
                      THEN [before.rel EXCEPT ![d] = @ + 1]
                      ELSE before.rel]

\* 'for data_set in node.inputs': the counts and the release calls after the
\* first i inputs of the list have been handled.
RECURSIVE AfterInputs(_, _, _, _, _)
AfterInputs(ins, i, counts, rel, free) ==
    IF i = 0 THEN [counts |-> counts, rel |-> rel]
    ELSE LET before == AfterInputs(ins, i - 1, counts, rel, free)
             d == ins[i]
             c == [before.counts EXCEPT ![d] = @ - 1]
         IN  [counts |-> c,
              rel |-> IF c[d] < 1 /\ d \notin free
                      THEN [before.rel EXCEPT ![d] = @ + 1]
                      ELSE before.rel]

\* AfterOutputs releasing only below a count of zero.
AfterOutputsBelowZero(outs, counts, rel, kept) ==
    [d \in Names |-> IF d \in outs /\ counts[d] < 0 /\ d \notin kept
                     THEN rel[d] + 1 ELSE rel[d]]

\* AfterOutputs without the test of the count.
AfterOutputsWhateverTheCount(outs, counts, rel, kept) ==
    [d \in Names |-> IF d \in outs /\ d \notin kept
                     THEN rel[d] + 1 ELSE rel[d]]

\* 'for data_set in node.outputs': the release calls after it.
AfterOutputs(outs, counts, rel, kept) ==
    [d \in Names |-> IF d \in outs /\ counts[d] < 1 /\ d \notin kept
                     THEN rel[d] + 1 ELSE rel[d]]

\* The rest of the turn: decrement the load counts and release the data sets
\* that are finished with.
Release ==
    /\ pc = "release"
    /\ LET ins == pipeline.inputs[node]
           a == AfterInputs(ins, Len(ins), load_counts, released,
                            pipeline_inputs(pipeline))
       IN  /\ load_counts' = a.counts
           /\ released' = AfterOutputs(pipeline.outputs[node], a.counts, a.rel,
                                       pipeline_outputs(pipeline))
    /\ pc' = IF done = {} THEN "schedule" ELSE "result"
    /\ UNCHANGED <<pipeVars, self_max_workers, max_workers, outcome, todo_nodes,
                   done_nodes, futures, done, node, poolVars, loads,
                   loadedAfterRelease, histVars>>

IsExecuting(k) == taskState[k] \in {"running", "loaded"}

\* Shutdown as shutdown(wait=True, cancel_futures=True): the work items still
\* queued are dropped and only the running ones are waited for.
ShutdownCancellingQueued ==
    /\ pc = "shutdown"
    /\ \A k \in Nodes : ~IsExecuting(k)
    /\ workQueue' = <<>>
    /\ pc' = "finished"
    /\ UNCHANGED <<pipeVars, self_max_workers, max_workers, outcome, loopVars,
                   taskState, catalogVars, histVars>>

\* Shutdown as shutdown(wait=False): the 'with' block is left at once.
ShutdownWithoutWaiting ==
    /\ pc = "shutdown"
    /\ pc' = "finished"
    /\ UNCHANGED <<pipeVars, self_max_workers, max_workers, outcome, loopVars,
                   poolVars, catalogVars, histVars>>

\* Leaving the 'with' block: ThreadPoolExecutor.__exit__ is shutdown(wait=True),
\* which returns once every submitted work item has run.
Shutdown ==
    /\ pc = "shutdown"
    /\ workQueue = <<>>
    /\ \A k \in Nodes : ~IsExecuting(k)
    /\ pc' = "finished"
    /\ UNCHANGED <<pipeVars, self_max_workers, max_workers, outcome, loopVars,
                   poolVars, catalogVars, histVars>>

(***************************************************************************)
(* The pool's worker threads, each running run_node on one work item.      *)
(***************************************************************************)
\* A free worker takes the oldest work item.
StartTask ==
    /\ workQueue # <<>>
    /\ Cardinality({k \in Nodes : IsExecuting(k)}) < max_workers
    /\ taskState' = [taskState EXCEPT ![Head(workQueue)] = "running"]
    /\ workQueue' = Tail(workQueue)
    /\ UNCHANGED <<pipeVars, self_max_workers, max_workers, pc, outcome, loopVars,
                   catalogVars, histVars>>

\* run_node loads the node's inputs from the catalog.
LoadInputs(k) ==
    /\ taskState[k] = "running"
    /\ taskState' = [taskState EXCEPT ![k] = "loaded"]
    /\ loads' = [d \in Names |-> loads[d] + Occurrences(pipeline.inputs[k], d)]
    /\ loadedAfterRelease' = loadedAfterRelease \cup
                             {d \in Range(pipeline.inputs[k]) : released[d] > 0}
    /\ UNCHANGED <<pipeVars, self_max_workers, max_workers, pc, outcome, loopVars,
                   workQueue, released, histVars>>

\* run_node returns the node.
TaskSucceed(k) ==
    /\ taskState[k] = "loaded"
    /\ taskState' = [taskState EXCEPT ![k] = "ok"]
    /\ UNCHANGED <<pipeVars, self_max_workers, max_workers, pc, outcome, loopVars,
                   workQueue, catalogVars, histVars>>

\* run_node raises: while loading, in the node's function, or while saving.
TaskFail(k) ==
    /\ IsExecuting(k)
    /\ taskState' = [taskState EXCEPT ![k] = "failed"]
    /\ UNCHANGED <<pipeVars, self_max_workers, max_workers, pc, outcome, loopVars,
                   workQueue, catalogVars, histVars>>

(***************************************************************************)
(* The sizing of the pool by the two runners.  ParallelRunner sizes a      *)
(* ProcessPoolExecutor: its max_workers is the argument, or the number of  *)
(* cores when there is none, and the pool gets the smaller of that and of  *)
(* what the pipeline requires.                                             *)
(***************************************************************************)
PoolWorkersArgs == {{}} \cup {{w} : w \in 0..MaxPoolWorkers}

\* ParallelRunner.__init__ keeping None instead of taking os.cpu_count().
ParallelConstructWithoutCores ==
    /\ pc = "construct"
    /\ runner = "ParallelRunner"
    /\ IF NonPositiveArg(max_workers_arg)
       THEN /\ pc' = "finished"
            /\ outcome' = [kind |-> "ValueError"]
            /\ UNCHANGED self_max_workers
       ELSE /\ pc' = "run"
            /\ self_max_workers' = max_workers_arg
            /\ UNCHANGED outcome
    /\ UNCHANGED <<pipeVars, max_workers, loopVars, poolVars, catalogVars, histVars>>

\* ParallelRunner.__init__: max_workers, or os.cpu_count() for None.
ParallelConstruct ==
    /\ pc = "construct"
    /\ runner = "ParallelRunner"
    /\ IF NonPositiveArg(max_workers_arg)
       THEN /\ pc' = "finished"
            /\ outcome' = [kind |-> "ValueError"]
            /\ UNCHANGED self_max_workers
       ELSE /\ pc' = "run"
            /\ self_max_workers' = IF max_workers_arg = {} THEN {cpu_cores}
                                   ELSE max_workers_arg
            /\ UNCHANGED outcome
    /\ UNCHANGED <<pipeVars, max_workers, loopVars, poolVars, catalogVars, histVars>>

ThreadConstruct ==
    /\ runner = "ThreadRunner"
    /\ \E arg \in PoolWorkersArgs : Construct(arg)

SizingInit ==
    /\ pipeline \in Pipelines
    /\ max_workers_arg \in PoolWorkersArgs
    /\ node_dependencies = real_node_dependencies(pipeline)
    /\ runner \in {"ThreadRunner", "ParallelRunner"}
    /\ cpu_cores \in 1..MaxCpuCores
    /\ NoSubprocess
    /\ NothingToPickle
    /\ NoCli
    /\ NotStarted

SizingNext ==
    \/ ThreadConstruct
    \/ ParallelConstruct
    \/ RunStart

SizingSpec == SizingInit /\ [][SizingNext]_vars

(***************************************************************************)
(* _run_node_synchronization, the function a ParallelRunner's pool runs in *)
(* a worker process for one node.                                          *)
(***************************************************************************)
StartMethods == {"spawn", "fork", "forkserver"}
LoggingConfigs == {{}, {<<>>}, {<<"fake_logging_config">>}}

Called(fn) == {i \in DOMAIN calls : calls[i][1] = fn}

\* 'if conf_logging:' in place of 'if conf_logging is not None:'.
LoggingSuppliedIfNotEmpty(conf) == conf # {} /\ conf # {<<>>}

\* 'conf_logging is not None'
LoggingSupplied(conf) == conf # {}

entryUnchanged == <<pipeline, node_dependencies, max_workers_arg, runner, cpu_cores,
                    entryArgs, unserializable, cliVars, self_max_workers, max_workers, outcome, todo_nodes,
                    done_nodes, futures, done, load_counts, node, workQueue,
                    catalogVars, histVars>>

\* 'if multiprocessing.get_start_method() == "spawn" and package_name:'
EntryStart ==
    /\ pc = "entry"
    /\ pc' = IF start_method = "spawn" /\ package_name # {}
             THEN "bootstrap" ELSE "run_node"
    /\ UNCHANGED <<entryUnchanged, taskState, calls>>

\* configure_project(package_name)
ConfigureProject ==
    /\ pc = "bootstrap"
    /\ Called("configure_project") = {}
    /\ calls' = Append(calls, <<"configure_project", package_name>>)
    /\ UNCHANGED <<entryUnchanged, taskState, pc>>

\* logging.config.dictConfig(conf_logging), for a conf_logging that was given
DictConfig ==
    /\ pc = "bootstrap"
    /\ LoggingSupplied(conf_logging)
    /\ Called("dictConfig") = {}
    /\ calls' = Append(calls, <<"dictConfig", conf_logging>>)
    /\ UNCHANGED <<entryUnchanged, taskState, pc>>

BootstrapDone ==
    /\ pc = "bootstrap"
    /\ Called("configure_project") # {}
    /\ LoggingSupplied(conf_logging) => Called("dictConfig") # {}
    /\ pc' = "run_node"
    /\ UNCHANGED <<entryUnchanged, taskState, calls>>

\* 'return run_node(node, catalog, is_async, session_id)': the call
EntryRunNode ==
    /\ pc = "run_node"
    /\ taskState[node] = "none"
    /\ calls' = Append(calls, <<"run_node", node, is_async>>)
    /\ taskState' = [taskState EXCEPT ![node] = "running"]
    /\ UNCHANGED <<entryUnchanged, pc>>

\* and its end: run_node's node is returned, or its error goes on.
EntryReturn ==
    /\ pc = "run_node"
    /\ IsFinished(node)
    /\ pc' = "finished"
    /\ outcome' = IF taskState[node] = "ok" THEN [kind |-> "returned"]
                  ELSE [kind |-> "task_error", of |-> node]
    /\ UNCHANGED <<pipeline, node_dependencies, envVars, self_max_workers,
                   max_workers, loopVars, poolVars, catalogVars, histVars>>

\* One call of _run_node_synchronization for a node of a pipeline of nodes
\* that read nothing.
EntryInit ==
    /\ pipeline = [n |-> NumNodes, inputs |-> [k \in Nodes |-> <<>>],
                   outputs |-> [k \in Nodes |-> {}]]
    /\ node_dependencies = real_node_dependencies(pipeline)
    /\ max_workers_arg = {}
    /\ runner = "ParallelRunner"
    /\ cpu_cores = MaxCpuCores
    /\ start_method \in StartMethods
    /\ package_name \in {{}, {"package_name"}}
    /\ conf_logging \in LoggingConfigs
    /\ is_async \in BOOLEAN
    /\ calls = <<>>
    /\ NothingToPickle
    /\ NoCli
    /\ self_max_workers = {}
    /\ max_workers = 0
    /\ pc = "entry"
    /\ outcome = NoOutcome
    /\ todo_nodes = {}
    /\ done_nodes = {}
    /\ futures = {}
    /\ done = {}
    /\ load_counts = [d \in Names |-> 0]
    /\ node \in Nodes
    /\ taskState = [k \in Nodes |-> "none"]
    /\ workQueue = <<>>
    /\ released = [d \in Names |-> 0]
    /\ loads = [d \in Names |-> 0]
    /\ loadedAfterRelease = {}
    /\ dispatchCount = [k \in Nodes |-> 0]
    /\ finishCount = [k \in Nodes |-> 0]
    /\ suggested = <<>>
    /\ stateAtFailure = [k \in Nodes |-> "none"]

EntryNext ==
    \/ EntryStart
    \/ ConfigureProject
    \/ DictConfig
    \/ BootstrapDone
    \/ EntryRunNode
    \/ EntryReturn
    \/ \E k \in Nodes : LoadInputs(k)
    \/ \E k \in Nodes : TaskSucceed(k)
    \/ \E k \in Nodes : TaskFail(k)

EntrySpec == EntryInit /\ [][EntryNext]_vars

(***************************************************************************)
(* ParallelRunner's checks of what has to cross to the worker processes,   *)
(* made when the run begins: the catalog's data sets, then the nodes.      *)
(***************************************************************************)
AtMostOne(S) == {{}} \cup {{x} : x \in S}

\* The data sets of the catalog the pipeline reads or writes.
data_sets(p) == all_inputs(p) \cup all_outputs(p)

\* _validate_nodes letting every node through.
ValidateNodesLettingThrough ==
    /\ pc = "validate_nodes"
    /\ pc' = "run"
    /\ UNCHANGED <<pipeVars, self_max_workers, max_workers, outcome, loopVars,
                   poolVars, catalogVars, histVars>>

\* _validate_catalog: AttributeError with the names of the data sets that
\* cannot be pickled or are memory data sets of the caller's process.
ValidateCatalog ==
    /\ pc = "validate_catalog"
    /\ LET found == unserializable_data_sets \cap data_sets(pipeline)
       IN  IF found # {}
           THEN /\ outcome' = [kind |-> "AttributeError", nodes |-> {},
                                data_sets |-> found]
                /\ pc' = "finished"
           ELSE /\ pc' = "validate_nodes"
                /\ UNCHANGED outcome
    /\ UNCHANGED <<pipeVars, self_max_workers, max_workers, loopVars, poolVars,
                   catalogVars, histVars>>

\* _validate_nodes: AttributeError with the nodes whose function cannot be
\* pickled.
ValidateNodes ==
    /\ pc = "validate_nodes"
    /\ LET found == unserializable_nodes \cap PNodes(pipeline)
       IN  IF found # {}
           THEN /\ outcome' = [kind |-> "AttributeError", nodes |-> found,
                                data_sets |-> {}]
                /\ pc' = "finished"
           ELSE /\ pc' = "run"
                /\ UNCHANGED outcome
    /\ UNCHANGED <<pipeVars, self_max_workers, max_workers, loopVars, poolVars,
                   catalogVars, histVars>>

\* A ParallelRunner without max_workers begins the run of a pipeline.
GuardInit ==
    /\ pipeline \in Pipelines
    /\ node_dependencies = real_node_dependencies(pipeline)
    /\ max_workers_arg = {}
    /\ runner = "ParallelRunner"
    /\ cpu_cores = MaxCpuCores
    /\ NoSubprocess
    /\ NoCli
    /\ unserializable_nodes \in AtMostOne(PNodes(pipeline))
    /\ unserializable_data_sets \in AtMostOne(data_sets(pipeline))
    /\ self_max_workers = {cpu_cores}
    /\ pc = "validate_catalog"
    /\ NoRun

\* The run up to the first work items taken by the pool's processes.
GuardNext ==
    \/ ValidateCatalog
    \/ ValidateNodes
    \/ RunStart
    \/ Schedule
    \/ StartTask

GuardSpec == GuardInit /\ [][GuardNext]_vars

(***************************************************************************)
(* The command 'kedro pipeline delete'.                                    *)
(***************************************************************************)
\* No runner is part of what is modelled.
NoRunner ==
    /\ pipeline = [n |-> 0, inputs |-> <<>>, outputs |-> <<>>]
    /\ node_dependencies = real_node_dependencies(pipeline)
    /\ max_workers_arg = {}
    /\ runner = "ThreadRunner"
    /\ cpu_cores = MaxCpuCores
    /\ NoSubprocess
    /\ NothingToPickle
    /\ self_max_workers = {}
    /\ NoRun

runnerVars == <<pipeline, node_dependencies, max_workers_arg, runner, cpu_cores,
                entryArgs, calls, unserializable, self_max_workers, max_workers,
                loopVars, poolVars, catalogVars, histVars>>

KedroCliError(message) == [kind |-> "KedroCliError", message |-> message]

\* The members of the list s that satisfy is_file, or is_dir, in list order.
RECURSIVE Those(_, _)
Those(s, kind) ==
    IF s = <<>> THEN <<>>
    ELSE (IF paths[Head(s)] = kind THEN <<Head(s)>> ELSE <<>>) \o Those(Tail(s), kind)

\* delete_pipeline with 'yes' taken as given.
delete_pipeline_unconfirmed ==
    /\ pc = "delete_pipeline"
    /\ LET files_to_delete == Those(ConfFiles, "file")
           dirs_to_delete == Those(PipelineDirs, "dir")
       IN  IF ~env_exists
           THEN /\ outcome' = KedroCliError("Unable to locate environment")
                /\ pc' = "finished"
                /\ UNCHANGED <<answer, artifacts>>
           ELSE IF files_to_delete = <<>> /\ dirs_to_delete = <<>>
           THEN /\ outcome' = KedroCliError("not found")
                /\ pc' = "finished"
                /\ UNCHANGED <<answer, artifacts>>
           ELSE /\ artifacts' = files_to_delete \o dirs_to_delete
                /\ pc' = "delete_artifacts"
                /\ UNCHANGED <<outcome, answer>>
    /\ UNCHANGED <<runnerVars, syncVars, env_exists, paths, yes, deleted, unremovable>>

\* delete_pipeline, up to the call of _delete_artifacts.
delete_pipeline ==
    /\ pc = "delete_pipeline"
    /\ LET files_to_delete == Those(ConfFiles, "file")
           dirs_to_delete == Those(PipelineDirs, "dir")
       IN  IF ~env_exists
           THEN /\ outcome' = KedroCliError("Unable to locate environment")
                /\ pc' = "finished"
                /\ UNCHANGED <<answer, artifacts>>
           ELSE IF files_to_delete = <<>> /\ dirs_to_delete = <<>>
           THEN /\ outcome' = KedroCliError("not found")
                /\ pc' = "finished"
                /\ UNCHANGED <<answer, artifacts>>
           ELSE \E confirm \in {"yes", "no"} :
                /\ answer' = IF yes THEN "unasked" ELSE confirm
                /\ IF yes \/ answer' = "yes"
                   THEN /\ artifacts' = files_to_delete \o dirs_to_delete
                        /\ pc' = "delete_artifacts"
                        /\ UNCHANGED outcome
                   ELSE /\ outcome' = KedroCliError("Deletion aborted!")
                        /\ pc' = "finished"
                        /\ UNCHANGED artifacts
    /\ UNCHANGED <<runnerVars, syncVars, env_exists, paths, yes, deleted, unremovable>>

\* One turn of 'for artifact in artifacts' of _delete_artifacts, or the end
\* of delete_pipeline after it.
delete_artifacts ==
    /\ pc = "delete_artifacts"
    /\ IF artifacts = <<>>
       THEN /\ outcome' = [kind |-> "deleted"]
            /\ pc' = "finished"
            /\ UNCHANGED <<artifacts, deleted>>
       ELSE IF Head(artifacts) \in unremovable
       THEN /\ outcome' = KedroCliError("exc")
            /\ pc' = "finished"
            /\ UNCHANGED <<artifacts, deleted>>
       ELSE /\ deleted' = deleted \cup {Head(artifacts)}
            /\ artifacts' = Tail(artifacts)
            /\ UNCHANGED <<pc, outcome>>
    /\ UNCHANGED <<runnerVars, syncVars, env_exists, paths, yes, answer, unremovable>>

\* The configuration files are under the environment's directory.
DeleteInit ==
    /\ NoRunner
    /\ pc = "delete_pipeline"
    /\ env_exists \in BOOLEAN
    /\ paths \in [ProjectPaths -> {"none", "file", "dir"}]
    /\ ~env_exists => \A i \in DOMAIN ConfFiles : paths[ConfFiles[i]] = "none"
    /\ yes \in BOOLEAN
    /\ answer = "unasked"
    /\ artifacts = <<>>
    /\ deleted = {}
    /\ unremovable \in AtMostOne(ProjectPaths)
    /\ NoSync

DeleteNext ==
    \/ delete_pipeline
    \/ delete_artifacts

DeleteSpec == DeleteInit /\ [][DeleteNext]_vars

(***************************************************************************)
(* _sync_dirs, which copies a source directory into a target directory.    *)
(***************************************************************************)
\* The trees of a directory: an entry is nothing, a file or a directory, and
\* only a directory has something in it.
Trees ==
    {t \in [SyncPaths -> {"none", "file", "dir"}] :
        \A p \in SyncPaths : (Len(p) = 2 /\ t[p] # "none") => t[<<p[1]>>] = "dir"}

\* What a path is in the target now; <<>> is the target directory itself.
TargetNow(p) ==
    IF p = <<>> THEN "dir"
    ELSE IF p \in copied THEN "file"
    ELSE IF p \in made THEN "dir"
    ELSE target[p]

\* The names in a directory of the given tree.
Listing(is, dir) ==
    {a \in EntryNames \cup InnerNames :
        Append(dir, a) \in SyncPaths /\ is[Append(dir, a)]}

\* The locals of one call of _sync_dirs when its loop begins.
Frame(dir, flag) ==
    [dir            |-> dir,
     content        |-> Listing([p \in SyncPaths |-> source[p] # "none"], dir),
     overwrite      |-> flag,
     existing_files |-> IF TargetNow(dir) = "dir"
                        THEN Listing([p \in SyncPaths |-> TargetNow(p) = "file"], dir)
                        ELSE {},
     existing_folders |-> IF TargetNow(dir) = "dir"
                          THEN Listing([p \in SyncPaths |-> TargetNow(p) = "dir"], dir)
                          ELSE {}]

\* The overwrite the call for a directory inside gets: line 277 does not
\* pass it, so it is the default.
InnerOverwrite(flag) == FALSE

\* rule #1
Skipped(f, source_name) ==
    \/ ~f.overwrite /\ source_name \in f.existing_files
    \/ source[Append(f.dir, source_name)] = "file" /\ source_name \in f.existing_folders

\* One turn of 'for source_path in content' of the innermost call, in any
\* order of the directory's entries, or the return of that call.
sync_dirs ==
    /\ pc = "sync_dirs"
    /\ frames # <<>>
    /\ LET f == Head(frames)
       IN  IF f.content = {}
           THEN /\ frames' = Tail(frames)
                /\ UNCHANGED <<copied, made, pc, outcome>>
           ELSE \E source_name \in f.content :
                LET source_path == Append(f.dir, source_name)
                    rest == <<[f EXCEPT !.content = @ \ {source_name}]>> \o Tail(frames)
                IN  IF Skipped(f, source_name)
                    THEN /\ frames' = rest
                         /\ UNCHANGED <<copied, made, pc, outcome>>
                    ELSE IF source[source_path] = "file"
                    THEN IF TargetNow(f.dir) = "file"
                         THEN \* target.mkdir finds a file in its place
                              /\ outcome' = [kind |-> "FileExistsError"]
                              /\ pc' = "finished"
                              /\ UNCHANGED <<frames, copied, made>>
                         ELSE /\ made' = IF TargetNow(f.dir) = "none"
                                         THEN made \cup {f.dir} ELSE made
                              /\ copied' = copied \cup {source_path}
                              /\ frames' = rest
                              /\ UNCHANGED <<pc, outcome>>
                    ELSE /\ frames' = <<Frame(source_path, InnerOverwrite(f.overwrite))>>
                                      \o rest
                         /\ UNCHANGED <<copied, made, pc, outcome>>
    /\ UNCHANGED <<runnerVars, deleteVars, source, target, overwrite>>

\* The outermost call has returned.
sync_dirs_return ==
    /\ pc = "sync_dirs"
    /\ frames = <<>>
    /\ pc' = "finished"
    /\ outcome' = [kind |-> "returned"]
    /\ UNCHANGED <<runnerVars, cliVars>>

SyncInit ==
    /\ NoRunner
    /\ NoDelete
    /\ pc = "sync_dirs"
    /\ source \in Trees
    /\ target \in Trees
    /\ overwrite \in BOOLEAN
    /\ copied = {}
    /\ made = {}
    /\ frames = <<Frame(<<>>, overwrite)>>

SyncNext ==
    \/ sync_dirs
    \/ sync_dirs_return

SyncSpec == SyncInit /\ [][SyncNext]_vars

Next ==
    \/ \E arg \in MaxWorkersArgs : Construct(arg)
    \/ RunStart
    \/ Schedule
    \/ Wait
    \/ GetResult
    \/ Release
    \/ Shutdown
    \/ StartTask
    \/ \E k \in Nodes : LoadInputs(k)
    \/ \E k \in Nodes : TaskSucceed(k)
    \/ \E k \in Nodes : TaskFail(k)

Spec == Init /\ [][Next]_vars

\* The control thread is never stopped for ever, and neither is a worker
\* thread: a work item submitted to the pool is eventually taken by a free
\* worker, and run_node eventually returns or raises.
ControlStep ==
    \/ \E arg \in MaxWorkersArgs : Construct(arg)
    \/ RunStart \/ Schedule \/ Wait \/ GetResult \/ Release \/ Shutdown

WorkerStep(k) == LoadInputs(k) \/ TaskSucceed(k) \/ TaskFail(k)

LiveSpec ==
    /\ Init /\ [][Next]_vars
    /\ WF_vars(ControlStep)
    /\ WF_vars(StartTask)
    /\ \A k \in Nodes : WF_vars(WorkerStep(k))

(***************************************************************************)
(* Properties of the scheduling loop.                                      *)
(***************************************************************************)
Inputs(k) == Range(pipeline.inputs[k])

\* The nodes that declare the name d as an input.
Consumers(d) == {k \in PNodes(pipeline) : d \in Inputs(k)}

Dispatched(k) == taskState[k] # "none"

RealDependencies == node_dependencies = real_node_dependencies(pipeline)

Returned == pc = "finished" /\ outcome.kind = "returned"

\* C1: a node is in the pool only if every node of its dependency set has
\* completed successfully and is recorded in done_nodes.
C1_DispatchAfterDependencies ==
    \A k \in PNodes(pipeline) :
        Dispatched(k) =>
            \A d \in node_dependencies[k] :
                d \in done_nodes /\ d \in Nodes /\ taskState[d] = "ok"

\* A node with two dependencies is executing.
C1_Witness ==
    \E k \in PNodes(pipeline) :
        /\ IsExecuting(k)
        /\ Cardinality(node_dependencies[k]) = 2
        /\ RealDependencies

SomeTaskFailed == \E k \in Nodes : taskState[k] = "failed"

\* C2: with the pipeline's own dependency map and a valid max_workers, a run
\* in which no task fails and every submitted task completes returns, and
\* then todo_nodes and futures are empty and every node has been submitted
\* once and recorded as done once.
C2_TerminatesHavingRunEveryNode ==
    <>(\/ SomeTaskFailed
       \/ ~RealDependencies
       \/ outcome.kind = "ValueError"
       \/ /\ Returned
          /\ todo_nodes = {} /\ futures = {} /\ done = {}
          /\ done_nodes = PNodes(pipeline)
          /\ \A k \in PNodes(pipeline) :
                dispatchCount[k] = 1 /\ finishCount[k] = 1 /\ taskState[k] = "ok")

\* A run over three nodes, two of them ready together, has returned.
C2_Witness ==
    /\ Returned
    /\ RealDependencies
    /\ pipeline.n = 3
    /\ grouped_nodes_len(pipeline) = 2
    /\ \A k \in PNodes(pipeline) : dispatchCount[k] = 1 /\ finishCount[k] = 1

\* The names the graph uses that are neither free inputs nor run outputs.
Intermediates ==
    (all_inputs(pipeline) \cup all_outputs(pipeline))
        \ (pipeline_inputs(pipeline) \cup pipeline_outputs(pipeline))

\* C3: a name that is neither a free input nor a run output is released at
\* most once, exactly once when the run has returned, and only once every
\* node that declares it as an input has completed.
C3_ReleaseOnceAfterLastConsumer ==
    \A d \in Intermediates :
        /\ released[d] <= 1
        /\ Returned => released[d] = 1
        /\ released[d] >= 1 => \A k \in Consumers(d) : taskState[k] = "ok"

\* A run has returned having released a name that two nodes declare, one of
\* them twice.
C3_Witness ==
    /\ Returned
    /\ \E d \in Intermediates :
          /\ released[d] = 1
          /\ Cardinality(Consumers(d)) = 2
          /\ InitialLoadCounts(pipeline)[d] = 3

\* C4: no free input and no run output is ever released.
C4_NeverReleaseFreeInputsOrRunOutputs ==
    \A d \in pipeline_inputs(pipeline) \cup pipeline_outputs(pipeline) :
        released[d] = 0

\* A run has returned that read a free input, kept a run output and released
\* something in between.
C4_Witness ==
    /\ Returned
    /\ pipeline_inputs(pipeline) # {}
    /\ pipeline_outputs(pipeline) # {}
    /\ \E d \in Names : released[d] > 0

\* Two nodes neither of which depends on the other, directly or not.
RECURSIVE Ancestors(_)
Ancestors(k) ==
    LET parents == real_node_dependencies(pipeline)[k]
    IN  parents \cup UNION {Ancestors(d) : d \in parents}

Independent(j, k) == j # k /\ j \notin Ancestors(k) /\ k \notin Ancestors(j)

\* C5: a name that two nodes able to run concurrently declare as input is
\* not released while one of them has not completed and been recorded.
C5_MultiConsumerRelease ==
    \A d \in Names :
        \A j, k \in Consumers(d) :
            (Independent(j, k) /\ released[d] >= 1) =>
                /\ {j, k} \subseteq done_nodes
                /\ taskState[j] = "ok" /\ taskState[k] = "ok"

\* Of two independent consumers of a produced name one is recorded as done,
\* its releases performed, the other is still executing, and the name is held.
C5_Witness ==
    \E d \in Intermediates :
        \E j, k \in Consumers(d) :
            /\ Independent(j, k)
            /\ j \in done_nodes /\ ~(pc = "release" /\ node = j)
            /\ IsExecuting(k)
            /\ released[d] = 0

\* The for loop has finished its turn for node k: k is recorded as done and
\* the releases its completion triggers have been made.
ReleasePassDone(k) == k \in done_nodes /\ ~(pc = "release" /\ node = k)

\* Something node m produced has been loaded.
LoadedFrom(m) == \E x \in Names : x[1] = m /\ loads[x] > 0

\* C6: a node is in the pool only when the releases triggered by the
\* completion of each of its dependencies have been made; and when node m is
\* the only consumer of a produced name, that name is released before
\* anything m produced is loaded.
C6_ReleaseBeforeDependentsDispatch ==
    /\ \A k \in PNodes(pipeline) :
          Dispatched(k) => \A d \in node_dependencies[k] : ReleasePassDone(d)
    /\ \A m \in PNodes(pipeline) :
          \A a \in Inputs(m) :
              (a \in Intermediates /\ Consumers(a) = {m} /\ LoadedFrom(m)) =>
                  released[a] = 1

\* The chain source -> first -> second -> sink: the sink has loaded the second
\* name while executing, the first name being already released.
C6_Witness ==
    /\ pipeline.n = 3
    /\ pipeline.inputs = <<<<>>, <<<<1, "">>>>, <<<<2, "">>>>>>
    /\ taskState[3] = "loaded"
    /\ released[<<1, "">>] = 1

\* The outputs of k that nothing is waiting to load and the run does not keep.
UnneededOutputs(k) ==
    {d \in pipeline.outputs[k] :
        load_counts[d] = 0 /\ d \notin pipeline_outputs(pipeline)}

\* C7: once the loop has handled the completion of a node, each output of it
\* whose load count is zero and which is not a run output is released; no
\* node is submitted while such an output of a done node is unreleased; and
\* the "@save" side of a name is released before its "@load" side is loaded.
C7_OutputsReleasedAtCompletion ==
    /\ [](\A k \in PNodes(pipeline) :
            ReleasePassDone(k) => \A d \in UnneededOutputs(k) : released[d] >= 1)
    /\ [](\A k \in PNodes(pipeline) :
            loads[<<k, "load">>] > 0 => released[<<k, "save">>] >= 1)
    /\ [][dispatchCount' # dispatchCount =>
            \A k \in done_nodes : \A d \in UnneededOutputs(k) : released[d] >= 1]_vars

\* The "@save" side of a name is released while the reader of its "@load"
\* side is still waiting in the pool's queue.
C7_Witness ==
    \E k \in PNodes(pipeline) :
        /\ released[<<k, "save">>] = 1
        /\ loads[<<k, "load">>] = 0
        /\ \E j \in Consumers(<<k, "load">>) : taskState[j] = "queued"

\* C8: when the loop has met a failed future, _suggest_resume_scenario has
\* been called, once, with done_nodes as it is, the error raised is that
\* future's, and the loop is left; a run that made the call does not return.
C8_DiagnosticsThenPropagate ==
    /\ outcome.kind = "task_error" =>
          /\ suggested = <<done_nodes>>
          /\ taskState[outcome.of] = "failed"
          /\ pc \in {"shutdown", "finished"}
    /\ suggested # <<>> => outcome.kind = "task_error"

\* A run has ended with a task's error after two other nodes had completed.
C8_Witness ==
    /\ pc = "finished"
    /\ outcome.kind = "task_error"
    /\ Cardinality(done_nodes) = 2
    /\ suggested = <<done_nodes>>

\* C9: once the loop has met a failed future, no node leaves todo_nodes and
\* none is submitted to the pool.
C9_NoDispatchAfterFailure ==
    [][outcome.kind = "task_error" =>
          UNCHANGED <<todo_nodes, futures, dispatchCount>>]_vars

\* The run has ended with a task's error while a node whose dependencies are
\* all done is still in todo_nodes.
C9_Witness ==
    /\ pc = "finished"
    /\ outcome.kind = "task_error"
    /\ ReadyNodes(todo_nodes, node_dependencies, done_nodes) # {}

\* C10: with a dependency map in which every node depends on a name that
\* never completes, the run ends: the loop finds nothing in flight and nodes
\* left in todo_nodes, and raises the error carrying those nodes, which are
\* all of them; no node is ever submitted.
C10_UnschedulableRaises ==
    /\ [](~RealDependencies => \A k \in Nodes : ~Dispatched(k))
    /\ <>(\/ RealDependencies
          \/ outcome.kind = "ValueError"
          \/ /\ pc = "finished"
             /\ outcome.kind = "AssertionError"
             /\ outcome.todo = PNodes(pipeline)
             /\ \A k \in Nodes : dispatchCount[k] = 0)

\* The run over three nodes has ended with the error carrying all of them.
C10_Witness ==
    /\ pc = "finished"
    /\ outcome.kind = "AssertionError"
    /\ outcome.todo = 1..3
    /\ node_dependencies = fake_node_dependencies(pipeline)
    /\ \A k \in Nodes : ~Dispatched(k)

(***************************************************************************)
(* Properties of the worker sizing and of the constructor.                 *)
(***************************************************************************)
\* The loop of _run has been entered.
InRun == pc \notin {"construct", "run"} /\ outcome.kind # "ValueError"

\* |nodes| - |layers| + 1.
UpperBound == pipeline.n - grouped_nodes_len(pipeline) + 1

\* C11: the pool's bound is |nodes| - |layers| + 1 when no max_workers was
\* given, and the smaller of that and max_workers when one was.
C11_RequiredWorkers ==
    InRun =>
        /\ self_max_workers = {} => max_workers = UpperBound
        /\ \A w \in self_max_workers :
              /\ max_workers <= UpperBound /\ max_workers <= w
              /\ max_workers = UpperBound \/ max_workers = w

\* A run of three independent nodes under max_workers = 2, and so a pool of 2.
C11_Witness ==
    /\ InRun
    /\ UpperBound = 3
    /\ self_max_workers = {2}
    /\ max_workers = 2

NonPositive(arg) == \E w \in arg : w <= 0

\* C13: __init__ with a max_workers of zero or less raises ValueError, and
\* nothing of a run happens; no runner holds a max_workers that is not
\* positive; __init__ with None or a positive max_workers keeps it.
C13_NonPositiveRejected ==
    /\ \A w \in self_max_workers : w > 0
    /\ (pc # "construct" /\ NonPositive(max_workers_arg)) =>
          /\ pc = "finished" /\ outcome.kind = "ValueError"
          /\ self_max_workers = {} /\ max_workers = 0
          /\ todo_nodes = {} /\ \A k \in Nodes : ~Dispatched(k)
    /\ (pc # "construct" /\ ~NonPositive(max_workers_arg)) =>
          /\ outcome.kind # "ValueError"
          /\ self_max_workers = max_workers_arg

\* __init__ was given 0 and has raised.
C13_Witness ==
    /\ max_workers_arg = {0}
    /\ pc = "finished"
    /\ outcome.kind = "ValueError"

(***************************************************************************)
(* Properties of a run in which a task fails.                              *)
(***************************************************************************)
\* The futures a wait has handed to the loop.
Returned_by_wait == {k \in Nodes : Dispatched(k) /\ k \notin futures}

\* C16: the done_nodes given to _suggest_resume_scenario hold every node
\* whose future a wait had handed to the loop, finished without an error,
\* by the time the loop met the failed future.
C16_RecordHoldsEverySuccess ==
    suggested # <<>> =>
        \A k \in Returned_by_wait : taskState[k] = "ok" => k \in suggested[1]

\* The loop has met a failed future.
FailureObserved == outcome.kind = "task_error"

\* C17 as stated: once the loop has met a failed future, a node that had not
\* begun to run, whether still in todo_nodes or queued in the pool, never
\* begins.
C17_NothingStartsAfterFailure ==
    FailureObserved =>
        \A k \in Nodes : stateAtFailure[k] \in {"none", "queued"} =>
                            taskState[k] = stateAtFailure[k]

\* C17 as the code has it: once the loop has met a failed future, a node
\* that had not been submitted is never submitted and never begins; a node
\* that was queued in the pool at that time does run, and has returned or
\* raised by the time the run's error reaches the caller.
C17_OnlyQueuedStartAfterFailure ==
    FailureObserved =>
        /\ \A k \in Nodes : stateAtFailure[k] = "none" =>
                               taskState[k] = "none" /\ ~Dispatched(k)
        /\ pc = "finished" =>
              \A k \in Nodes : stateAtFailure[k] = "queued" => IsFinished(k)

\* Under a max_workers below the size of the ready set, a node that was
\* queued when the loop met the failed future has begun since.
C17_Witness ==
    /\ FailureObserved
    /\ self_max_workers # {}
    /\ \E k \in Nodes : stateAtFailure[k] = "queued" /\ IsExecuting(k)

IsExecuting_at_failure(k) == stateAtFailure[k] \in {"running", "loaded"}

\* C18: a run that ends with a task's error ends only when every node that
\* was running when the loop met the failed future has returned or raised:
\* none is cancelled, and leaving the 'with' block waits for all of them.
C18_ExecutingTasksFinish ==
    (FailureObserved /\ pc = "finished") =>
        /\ \A k \in Nodes : IsExecuting_at_failure(k) => IsFinished(k)
        /\ \A k \in Nodes : ~IsExecuting(k)

\* The error of one node has reached the caller after another node, running
\* when the loop met the failed future, returned.
C18_Witness ==
    /\ FailureObserved
    /\ pc = "finished"
    /\ \E k \in Nodes : IsExecuting_at_failure(k) /\ taskState[k] = "ok"

(***************************************************************************)
(* Properties of the loop's turns.                                         *)
(***************************************************************************)
\* The loop is past 'if not futures' of the current turn.
PastTheCheck == pc \in {"wait", "shutdown", "finished"}

\* C19: with the pipeline's own dependency map and no failed task, the loop
\* never finds, after submitting the ready nodes, that nothing is in flight
\* while nodes are left in todo_nodes: the assertion never fails, and a turn
\* that starts with nodes left and nothing in flight has a ready node.
C19_CheckNeverFires ==
    (RealDependencies /\ ~SomeTaskFailed) =>
        /\ outcome.kind # "AssertionError"
        /\ PastTheCheck => ~(futures = {} /\ todo_nodes # {})
        /\ (pc = "schedule" /\ futures = {} /\ todo_nodes # {}) =>
              ReadyNodes(todo_nodes, node_dependencies, done_nodes) # {}

\* A later turn of a run over a pipeline of several layers has passed the
\* check with nodes still left in todo_nodes.
C19_Witness ==
    /\ RealDependencies
    /\ ~SomeTaskFailed
    /\ pc = "wait"
    /\ done_nodes # {}
    /\ todo_nodes # {}

\* C20: wait returns as soon as one future has finished, whatever the others
\* do, and whenever the loop waits it has submitted every node of todo_nodes
\* whose dependencies are all done.
C20_ResumeOnFirstCompletion ==
    pc = "wait" =>
        /\ (\E k \in futures : IsFinished(k)) => ENABLED Wait
        /\ ReadyNodes(todo_nodes, node_dependencies, done_nodes) = {}

\* A node of the second layer has been submitted while a node of the first
\* layer, not among its dependencies, is still running.
C20_Witness ==
    /\ RealDependencies
    /\ pc = "wait"
    /\ \E j, k \in PNodes(pipeline) :
          /\ LayerOf(pipeline, j) = 1 /\ IsExecuting(j)
          /\ LayerOf(pipeline, k) = 2 /\ Dispatched(k)
          /\ j \notin node_dependencies[k]

(***************************************************************************)
(* Properties of the pool's size.                                          *)
(***************************************************************************)
\* The pool has been sized.
PoolSized == pc = "schedule"

Smaller(a, b) == IF a <= b THEN a ELSE b

ColdStart == start_method = "spawn" /\ package_name # {}

Times(fn) == Cardinality({i \in DOMAIN calls : calls[i][1] = fn})

\* C14: _run_node_synchronization calls run_node once, and has called it
\* once when it ends; under "spawn" with a package name, by the time of that
\* call configure_project has been called once, with the package name, and
\* dictConfig has been called once with conf_logging if conf_logging is not
\* None, the empty dict included, and not at all if it is None; under "fork"
\* dictConfig is never called.
C14_EntryRoutine ==
    /\ Times("run_node") <= 1
    /\ pc = "finished" => Times("run_node") = 1
    /\ \A i \in DOMAIN calls : calls[i][1] = "run_node" => i = Len(calls)
    /\ (ColdStart /\ Times("run_node") = 1) =>
          /\ Times("configure_project") = 1
          /\ \E i \in DOMAIN calls : calls[i] = <<"configure_project", package_name>>
          /\ Times("dictConfig") = IF conf_logging = {} THEN 0 ELSE 1
          /\ conf_logging # {} =>
                \E i \in DOMAIN calls : calls[i] = <<"dictConfig", conf_logging>>
    /\ start_method = "fork" => Times("dictConfig") = 0

\* Under "spawn" with a package name and the empty dict as conf_logging the
\* routine has ended, having called dictConfig with the empty dict.
C14_Witness ==
    /\ pc = "finished"
    /\ ColdStart
    /\ conf_logging = {<<>>}
    /\ \E i \in DOMAIN calls : calls[i] = <<"dictConfig", {<<>>}>>
    /\ Times("run_node") = 1

(***************************************************************************)
(* Properties of ParallelRunner's checks.                                  *)
(***************************************************************************)
NotTransferable ==
    \/ unserializable_nodes \cap PNodes(pipeline) # {}
    \/ unserializable_data_sets \cap (all_inputs(pipeline) \cup all_outputs(pipeline)) # {}

\* C15: when a node's function or a data set of the catalog that the
\* pipeline uses cannot cross to another process, no pool is made, no node
\* is submitted and no work item is taken by a process, and the run ends
\* only with an AttributeError that names at least one of them and nothing
\* else.
C15_GuardBeforeDispatch ==
    NotTransferable =>
        /\ max_workers = 0
        /\ workQueue = <<>>
        /\ \A k \in Nodes : taskState[k] = "none" /\ dispatchCount[k] = 0
        /\ pc \in {"validate_catalog", "validate_nodes", "finished"}
        /\ pc = "finished" =>
              /\ outcome.kind = "AttributeError"
              /\ outcome.nodes # {} \/ outcome.data_sets # {}
              /\ outcome.nodes \subseteq unserializable_nodes
              /\ outcome.data_sets \subseteq unserializable_data_sets

\* The catalog has passed, and the run has ended with the AttributeError
\* that names the one node whose function cannot be pickled.
C15_Witness ==
    /\ pc = "finished"
    /\ unserializable_nodes # {}
    /\ outcome.kind = "AttributeError"
    /\ outcome.nodes = unserializable_nodes

(***************************************************************************)
(* Properties of the pool's bound during a run.                            *)
(***************************************************************************)
\* The nodes submitted to the pool whose run_node has not ended.
Unfinished == {k \in Nodes : taskState[k] \in {"queued", "running", "loaded"}}

\* C21: without max_workers, the nodes submitted and not yet finished, and
\* the futures the loop holds, are never more than |nodes| - |layers| + 1, so
\* whenever a work item is queued a worker of the pool is free to take it.
C21_NoQueueingWithoutOverride ==
    (InRun /\ self_max_workers = {}) =>
        /\ Cardinality(Unfinished) <= UpperBound
        /\ Cardinality(futures) <= UpperBound
        /\ workQueue # <<>> =>
              Cardinality({k \in Nodes : IsExecuting(k)}) < max_workers

\* Without max_workers, a pipeline of two layers has as many nodes running
\* as the bound allows, one of them of the second layer.
C21_Witness ==
    /\ InRun
    /\ self_max_workers = {}
    /\ UpperBound = 2
    /\ Cardinality({k \in Nodes : IsExecuting(k)}) = 2
    /\ \E k \in PNodes(pipeline) : IsExecuting(k) /\ LayerOf(pipeline, k) = 2

\* C22: the bound _get_required_workers_count gives the pool is an integer
\* of at least 1, for the pipeline without nodes too, whatever max_workers
\* the constructor accepted.
C22_AtLeastOneWorker ==
    InRun => max_workers \in Nat /\ max_workers >= 1

\* The pool of a run of the pipeline without nodes has been sized.
C22_Witness ==
    /\ InRun
    /\ pipeline.n = 0
    /\ max_workers = 1

(***************************************************************************)
(* Properties of the loop's sets.                                          *)
(***************************************************************************)
\* The nodes submitted and not yet recorded in done_nodes: the futures the
\* loop still waits for and those wait has given it in the current turn.
InFlight == futures \cup done

\* C23: in a run that has met no failed future, todo_nodes, the nodes in
\* flight and done_nodes are disjoint and make up the nodes of the pipeline;
\* between turns the nodes in flight are the futures; a node of todo_nodes
\* was never submitted, a node in flight was submitted once and never
\* recorded, a node of done_nodes was submitted once and recorded once.
C23_TodoInFlightDonePartition ==
    (InRun /\ ~FailureObserved) =>
        /\ todo_nodes \cap InFlight = {}
        /\ todo_nodes \cap done_nodes = {}
        /\ InFlight \cap done_nodes = {}
        /\ todo_nodes \cup InFlight \cup done_nodes = PNodes(pipeline)
        /\ pc \in {"schedule", "wait"} => done = {}
        /\ \A k \in todo_nodes : dispatchCount[k] = 0 /\ finishCount[k] = 0
        /\ \A k \in InFlight : dispatchCount[k] = 1 /\ finishCount[k] = 0
        /\ \A k \in done_nodes : dispatchCount[k] = 1 /\ finishCount[k] = 1

\* The loop waits with a node left in todo_nodes, one in flight and one done.
C23_Witness ==
    /\ ~FailureObserved
    /\ pc = "wait"
    /\ todo_nodes # {}
    /\ futures # {}
    /\ done_nodes # {}

\* How often the nodes 1..k that are not in the set recorded declare the
\* name d as an input.
RECURSIVE PendingDeclarations(_, _, _)
PendingDeclarations(k, recorded, d) ==
    IF k = 0 THEN 0
    ELSE (IF k \in recorded THEN 0 ELSE Cardinality({i \in DOMAIN pipeline.inputs[k] :
                                                      pipeline.inputs[k][i] = d}))
         + PendingDeclarations(k - 1, recorded, d)

\* The nodes whose inputs the loop has counted down.
CountedDown == IF pc = "release" THEN done_nodes \ {node} ELSE done_nodes

\* C24: whenever the loop is not in the middle of counting down a finished
\* node's inputs, load_counts of a name is the number of times the nodes not
\* in done_nodes declare it as an input; while it is, the same holds with
\* that node taken as not yet done; the count is never negative.
C24_LoadCountsArePendingDeclarations ==
    InRun =>
        \A d \in Names :
            /\ load_counts[d] = PendingDeclarations(pipeline.n, CountedDown, d)
            /\ load_counts[d] >= 0

\* Between two turns a name declared three times has been counted down in
\* part.
C24_Witness ==
    /\ pc = "wait"
    /\ done_nodes # {}
    /\ \E d \in Names :
          /\ InitialLoadCounts(pipeline)[d] = 3
          /\ load_counts[d] \in {1, 2}

\* C25: a name that has been released is declared as an input by no node of
\* todo_nodes and by no node in flight, and no run_node has loaded a name
\* that was already released.
C25_NoUseAfterRelease ==
    /\ \A d \in Names :
          released[d] >= 1 =>
              \A k \in PNodes(pipeline) :
                  (k \in todo_nodes \/ k \in InFlight) =>
                      \A i \in DOMAIN pipeline.inputs[k] : pipeline.inputs[k][i] # d
    /\ loadedAfterRelease = {}

\* A name that a node read has been released while another node, submitted
\* since, has loaded its inputs and is running.
C25_Witness ==
    \E d \in Names :
        /\ released[d] = 1
        /\ loads[d] >= 1
        /\ \E k \in PNodes(pipeline) :
              taskState[k] = "loaded" /\ pipeline.inputs[k] # <<>>

(***************************************************************************)
(* Properties of 'kedro pipeline delete'.                                  *)
(***************************************************************************)
\* The files and directories of the pipeline that exist.
Found ==
    {p \in {"parameters.yml", "catalog.yml"} : paths[p] = "file"} \cup
    {p \in {"pipeline_dir", "pipeline_tests"} : paths[p] = "dir"}

DeletionConfirmed == yes \/ answer = "yes"

Ended(message) ==
    pc = "finished" /\ outcome = [kind |-> "KedroCliError", message |-> message]

\* C26 as stated: nothing is removed unless the deletion is confirmed; with
\* nothing found the command ends with 'not found' and without a prompt;
\* with something found and no confirmation it ends with 'Deletion
\* aborted!' and nothing removed; with a confirmation it ends having removed
\* what was found and nothing else.
C26_DeleteAsStated ==
    /\ ~DeletionConfirmed => deleted = {}
    /\ pc = "finished" =>
          /\ Found = {} => Ended("not found") /\ answer = "unasked"
          /\ (Found # {} /\ ~DeletionConfirmed) =>
                Ended("Deletion aborted!") /\ deleted = {}
          /\ (Found # {} /\ DeletionConfirmed) => deleted = Found

\* C26 as the code has it: nothing is removed unless the environment exists
\* and the deletion is confirmed, and nothing but what was found; without
\* the environment the command ends with 'Unable to locate environment',
\* whatever exists; with it and nothing found, with 'not found'; neither
\* prompts; with something found and no confirmation it ends with 'Deletion
\* aborted!' and nothing removed; confirmed, it ends having removed all that
\* was found, or, when a removal raises, with that error and only the paths
\* before the failing one removed.
C26_Delete ==
    /\ deleted # {} => env_exists /\ DeletionConfirmed
    /\ deleted \subseteq Found
    /\ answer # "unasked" => ~yes /\ env_exists /\ Found # {}
    /\ pc = "finished" =>
          /\ ~env_exists =>
                Ended("Unable to locate environment") /\ answer = "unasked"
          /\ (env_exists /\ Found = {}) =>
                Ended("not found") /\ answer = "unasked"
          /\ (env_exists /\ Found # {} /\ ~DeletionConfirmed) =>
                Ended("Deletion aborted!") /\ deleted = {}
          /\ (env_exists /\ Found # {} /\ DeletionConfirmed) =>
                \/ outcome.kind = "deleted" /\ deleted = Found
                \/ /\ Ended("exc")
                   /\ deleted # Found
                   /\ unremovable \cap Found # {}
                   /\ unremovable \cap deleted = {}

\* Without --yes, the prompt was answered yes and a file and a directory
\* have been removed, all that was found.
C26_Witness ==
    /\ pc = "finished"
    /\ outcome.kind = "deleted"
    /\ ~yes
    /\ answer = "yes"
    /\ deleted = {"catalog.yml", "pipeline_dir"}
    /\ paths["pipeline_tests"] = "file"

(***************************************************************************)
(* Properties of _sync_dirs.                                               *)
(***************************************************************************)
\* The paths that are a file in the source and a file in the target.
SameNamedFiles == {p \in SyncPaths : source[p] = "file" /\ target[p] = "file"}

\* C27: at every depth, a file of the target that the source has a file of
\* the same name for is not written when overwrite is False and has been
\* written, when the call has returned, if overwrite is True; a file of the
\* target that the source has nothing of the same name for is never written.
C27_SyncDirsAtEveryDepth ==
    /\ ~overwrite => \A p \in SameNamedFiles : p \notin copied
    /\ (overwrite /\ pc = "finished" /\ outcome.kind = "returned") =>
          \A p \in SameNamedFiles : p \in copied
    /\ \A p \in SyncPaths :
          (target[p] = "file" /\ source[p] = "none") => p \notin copied

====
